---- MODULE Spec2Model ----
(***************************************************************************)
(* bca-sync-ynab: the transaction normalisation and reconciliation         *)
(* pipeline.  Raw bank statement entries (bca.Entry) are mapped to YNAB    *)
(* payload transactions (toPayloadTransaction), submitted in one bulk call *)
(* (createYNABTransactions) and followed by a balance adjustment           *)
(* (createYNABBalancaAdjustment).                                          *)
(*                                                                         *)
(* Time is counted in whole hours since Go's zero time.Time (Monday,       *)
(* January 1 of year 1, 00:00), so 0 is the zero time (Time.IsZero) and    *)
(* every real time is positive.  A decimal.Decimal d is the integer        *)
(* d * DecDen, i.e. it is counted in units of 1/DecDen.                    *)
(***************************************************************************)
EXTENDS Integers, Sequences, FiniteSets

\* ---------------------------------------------------------------- bounds

\* decimal resolution: a currency unit has 1000 * SubMilli parts
SubMilli == 2
\* largest raw entry amount, in units of 1/DecDen
MaxAmount == 3
\* how far the clock may move between two successive time.Now() calls
MaxSkew == 1
\* how many entries a statement holds in Spec
MaxEntries == 2

DecDen == 1000 * SubMilli

NIL == "nil"

\* a nil *string where an import id (a digest) may stand
NoImportID == <<>>

\* ---------------------------------------------------------------- time

IsZero(t) == t = 0

After(t, u) == t > u

Hour(t) == t % 24

\* time.Weekday: Sunday = 0 ... Saturday = 6; hour 0 is a Monday
Weekday(t) == ((t \div 24) + 1) % 7

Friday == 5

Saturday == 6

Sunday == 0

CutoffHour == 22

\* time.Date(now.Year(), now.Month(), now.Day(), 0, 0, 0, 0, now.Location())
Rounded(now) == now - Hour(now)

AddDate(t, days) == t + 24 * days

\* clearDate with Saturday taken as a day before a working day
clearDateSaturdayNextDay(now) ==
  IF Weekday(now) = Friday
  THEN IF Hour(now) < CutoffHour THEN Rounded(now) ELSE AddDate(Rounded(now), 3)
  ELSE IF Weekday(now) \in {Saturday, Sunday} THEN AddDate(Rounded(now), 1)
  ELSE IF Hour(now) < CutoffHour THEN Rounded(now) ELSE AddDate(Rounded(now), 1)

\* clearDate without the weekend rule for Friday after the cutoff
clearDateFridayAsWeekday(now) ==
  IF Weekday(now) = Saturday THEN AddDate(Rounded(now), 2)
  ELSE IF Weekday(now) = Sunday THEN AddDate(Rounded(now), 1)
  ELSE IF Hour(now) < CutoffHour THEN Rounded(now) ELSE AddDate(Rounded(now), 1)

clearDate(now) ==
  IF Weekday(now) = Friday
  THEN IF Hour(now) < CutoffHour THEN Rounded(now) ELSE AddDate(Rounded(now), 3)
  ELSE IF Weekday(now) = Saturday THEN AddDate(Rounded(now), 2)
  ELSE IF Weekday(now) = Sunday THEN AddDate(Rounded(now), 1)
  ELSE IF Hour(now) < CutoffHour THEN Rounded(now) ELSE AddDate(Rounded(now), 1)

\* ---------------------------------------------------------------- decimal

\* decimal.Decimal.Mul(decimal.NewFromInt(k))
Mul(d, k) == d * k

\* decimal.Decimal.IntPart: the integer part, truncated toward zero
IntPart(d) == IF d >= 0 THEN d \div DecDen ELSE -((-d) \div DecDen)

\* ---------------------------------------------------------------- bca.Entry

\* the run happens in the week of days 7..13 (Monday..Sunday)
Times == {24 * d + h : d \in 7..13, h \in 0..23}

\* posted dates of settled entries: midnights before the run; 0 = pending
EntryDates == {0, 24 * 6}

Payees == {"ACME"}

Descriptions == {"", "coffee"}

Types == {"DB", "CR"}

Amounts == (-1)..MaxAmount

Entries ==
  [Date : EntryDates, Description : Descriptions, Payee : Payees,
   Type : Types, Amount : Amounts]

\* ---------------------------------------------------------------- mapper

\* structhash.Hash(trx, 1): a digest of the fields of the entry, taken to be
\* collision free
structhash(trx) ==
  <<trx.Date, trx.Description, trx.Payee, trx.Type, trx.Amount>>

\* the integer part taken before the scaling
MiliunitIntPartFirst(amount) == IntPart(amount) * 1000

\* trx.Amount.Mul(decimal.NewFromInt(1000)).IntPart()
Miliunit(amount) == IntPart(Mul(amount, 1000))

\* the sign never changed
SignedNever(type, miliunit) == miliunit

\* if trx.Type == "DB" { miliunit = -miliunit }
Signed(type, miliunit) == IF type = "DB" THEN -miliunit ELSE miliunit

\* the date never clamped
ClampNever(t, n2, n3) == t

\* if t.After(time.Now()) { t = time.Now() }
Clamp(t, n2, n3) == IF After(t, n2) THEN n3 ELSE t

\* the description left in the hashed entry
HashedWithDescription(trx, n1) ==
  IF IsZero(trx.Date) THEN [trx EXCEPT !.Date = clearDate(n1)] ELSE trx

\* the date of every entry replaced by the clearance date of the mapping
HashedAtClearDate(trx, n1) == [trx EXCEPT !.Description = "", !.Date = clearDate(n1)]

\* the zero date left in the hashed entry
HashedWithZeroDate(trx, n1) == [trx EXCEPT !.Description = ""]

\* the entry whose hash is taken: description blanked, zero date replaced
Hashed(trx, n1) ==
  LET blank == [trx EXCEPT !.Description = ""]
  IN  IF IsZero(blank.Date) THEN [blank EXCEPT !.Date = clearDate(n1)] ELSE blank

\* the memo read after the description was blanked
MemoBlanked(trx) == ""

\* desc := trx.Description ... memo = desc
Memo(trx) == trx.Description

\* n1, n2, n3: the readings of the three time.Now() calls, in program order
toPayloadTransaction(trx, accountID, n1, n2, n3) ==
  LET h == Hashed(trx, n1)
  IN  [AccountID  |-> accountID,
       Date       |-> Clamp(h.Date, n2, n3),
       Amount     |-> Signed(h.Type, Miliunit(h.Amount)),
       Cleared    |-> "cleared",
       Approved   |-> TRUE,
       PayeeID    |-> NIL,
       PayeeName  |-> h.Payee,
       CategoryID |-> NIL,
       Memo       |-> Memo(trx),
       FlagColor  |-> NIL,
       ImportID   |-> structhash(h)]

\* the date goes through clearDate
FireflyDateCleared(trx, n) == clearDate(IF IsZero(trx.Date) THEN n ELSE trx.Date)

\* case trx.Date.IsZero(): time.Now(); default: trx.Date
FireflyDate(trx, n) == IF IsZero(trx.Date) THEN n ELSE trx.Date

\* the two types the wrong way round
IsWithdrawalCredit(type) == type # "DB"

\* switch trx.Type { case "DB"
IsWithdrawal(type) == type = "DB"

\* the Firefly mapper; n: the reading of its time.Now() call
toFireflyTrx(trx, accountID, n) ==
  [Amount          |-> trx.Amount,
   Date            |-> FireflyDate(trx, n),
   Type            |-> IF IsWithdrawal(trx.Type) THEN "withdrawal" ELSE "deposit",
   SourceId        |-> IF IsWithdrawal(trx.Type) THEN accountID ELSE NIL,
   SourceName      |-> IF IsWithdrawal(trx.Type) THEN NIL ELSE trx.Payee,
   DestinationId   |-> IF IsWithdrawal(trx.Type) THEN NIL ELSE accountID,
   DestinationName |-> IF IsWithdrawal(trx.Type) THEN trx.Payee ELSE NIL,
   Description     |-> IF trx.Description # "" THEN trx.Description ELSE trx.Payee]

\* ---------------------------------------------------------------- ledger

AccountID == "acc"

InflowsID == "inflows"

AdjustmentPayee == "Automated Balance Adjustment"

\* delta := bal.Balance.IntPart()*1000 - anew.Balance
Delta(balance, anewBalance) == IntPart(balance) * 1000 - anewBalance

\* the adjustment sent with the status of a regular import
AdjustmentPayloadCleared(accountID, t, delta, categoryID) ==
  [AccountID  |-> accountID,
   Date       |-> t,
   Amount     |-> delta,
   Cleared    |-> "cleared",
   Approved   |-> TRUE,
   PayeeID    |-> NIL,
   PayeeName  |-> AdjustmentPayee,
   CategoryID |-> categoryID,
   Memo       |-> NIL,
   FlagColor  |-> NIL,
   ImportID   |-> NoImportID]

\* the payload of the balance adjustment transaction
AdjustmentPayload(accountID, t, delta, categoryID) ==
  [AccountID  |-> accountID,
   Date       |-> t,
   Amount     |-> delta,
   Cleared    |-> "reconciled",
   Approved   |-> TRUE,
   PayeeID    |-> NIL,
   PayeeName  |-> AdjustmentPayee,
   CategoryID |-> categoryID,
   Memo       |-> NIL,
   FlagColor  |-> NIL,
   ImportID   |-> NoImportID]

\* the payload put in front of the list
AppendPayloadFront(list, p) == <<p>> \o list

\* ps = append(ps, toPayloadTransaction(trx, account.ID))
AppendPayload(list, p) == Append(list, p)

\* the budgeting service: a transaction whose import_id the account already
\* holds is reported as a duplicate, every other one is created
RECURSIVE Import(_, _)
Import(l, list) ==
  IF list = <<>> THEN l
  ELSE LET p == Head(list)
       IN  IF p.ImportID \in l.ids
           THEN Import([l EXCEPT !.duplicates = @ + 1], Tail(list))
           ELSE Import([l EXCEPT !.ids = @ \cup {p.ImportID},
                                 !.balance = @ + p.Amount,
                                 !.created = @ + 1], Tail(list))

\* ---------------------------------------------------------------- helpers

Range(f) == {f[i] : i \in DOMAIN f}

Abs(x) == IF x < 0 THEN -x ELSE x

\* ---------------------------------------------------------------- state

VARIABLES
  pc,      \* position of the run
  now,     \* the wall clock (time.Now())
  trxs,    \* the raw entries, in statement order
  ps,      \* the payload transactions mapped so far
  readAt,  \* for each mapped entry, the three clock readings of its mapping
  ffs,     \* the Firefly transactions mapped so far
  anew,    \* the balance of the target account as read for the delta
  flag,    \* the command line: delete, csvFlag, noadjust, fireflyUrl
  bank,    \* the balance the bank reports (bca.Balance.Balance)
  ledger,  \* the budgeting account: balance, import ids, counts of the last import
  calls,   \* the calls made to the collaborators, in order
  bulk,    \* the payload of every CreateTransactions call
  adjusts, \* the payload of every CreateTransaction call
  csvOut,  \* the rows printed by the csv sink
  out,     \* the result of the run: Running, OK or the error
  fetched, \* what the statement fetch gave: "none", "failed", "empty", "entries"
  account, \* the target account the run found (a, account)
  accs,    \* the accounts GetAccounts returned
  cats,    \* the categories GetCategories returned
  firefly, \* the Firefly account: balance, transactions stored
  failure, \* the collaborator call that failed and how, or <<>>
  days,    \* the package variable days, which the --days flag is parsed into
  window,  \* the start and the end of the statement asked of the bank, or <<>>
  run,     \* 1 in the first run of the command, 2 in its rerun
  statement \* the lines of the bank's statement, as fetched last

vars == <<pc, now, trxs, ps, readAt, ffs, anew, flag, bank, ledger, calls, bulk, adjusts, csvOut, out, fetched, account, accs, cats, firefly, failure, days, window, run, statement>>

\* a result is a tuple of strings: the parts of the error message, outermost
\* first
OK == <<"nil">>

Running == <<"running">>

\* errors.Wrap(e, msg), fmt.Errorf(msg + ": %w", e)
Wrap(msg, e) == <<msg>> \o e

\* the error a collaborator's client returns
ApiError == <<"api error">>

\* the default of the --days flag
DefaultDays == 27

\* the longest statement the bank is asked for, in days
MaxDays == 27

\* no account found: the nil *account.Account
NoAccount == [ID |-> NIL, Name |-> NIL, Balance |-> 0]

\* one call of toPayloadTransaction on trxs[Len(ps) + 1]; skews: how far the
\* clock may have moved at each later reading
MapNext(accountID, skews) ==
  /\ Len(ps) < Len(trxs)
  /\ \E d1 \in skews, d2 \in skews :
       LET n1 == now
           n2 == now + d1
           n3 == now + d1 + d2
       IN  /\ ps' = AppendPayload(ps, toPayloadTransaction(trxs[Len(ps) + 1], accountID, n1, n2, n3))
           /\ readAt' = Append(readAt, <<n1, n2, n3>>)
           /\ now' = n3

\* ---------------------------------------------------------------- SpecMap
\* the mapper as a pure function: one entry, fetched and mapped twice

InitMap ==
  /\ pc = "mapper"
  /\ now \in Times
  /\ \E e \in Entries : trxs = <<e>>
  /\ ps = <<>>
  /\ readAt = <<>>
  /\ ffs = <<>>
  /\ anew = 0
  /\ flag = [delete |-> FALSE, csvFlag |-> FALSE, noadjust |-> FALSE, fireflyUrl |-> "", days |-> DefaultDays]
  /\ bank = 0
  /\ ledger = [balance |-> 0, ids |-> {}, created |-> 0, duplicates |-> 0]
  /\ calls = <<>>
  /\ bulk = <<>>
  /\ adjusts = <<>>
  /\ csvOut = <<>>
  /\ out = Running
  /\ fetched = "entries"
  /\ account = NoAccount
  /\ accs = <<>>
  /\ cats = <<>>
  /\ firefly = [balance |-> 0, stored |-> <<>>]
  /\ failure = <<>>
  /\ days = flag.days
  /\ window = <<>>
  /\ run = 1
  /\ statement = <<>>

\* both mappers applied to the entry fetched last
MapEntry ==
  /\ pc = "mapper"
  /\ MapNext("", 0..MaxSkew)
  /\ ffs' = Append(ffs, toFireflyTrx(trxs[Len(ps) + 1], AccountID, now))
  /\ UNCHANGED <<pc, trxs, anew, flag, bank, ledger, calls, bulk, adjusts, csvOut, out, fetched, account, accs, cats, firefly, failure, days, window, run, statement>>

\* the same statement line fetched again: the description is volatile
Refetch ==
  /\ pc = "mapper"
  /\ Len(ps) = 1
  /\ Len(trxs) = 1
  /\ \E d \in Descriptions : trxs' = Append(trxs, [trxs[1] EXCEPT !.Description = d])
  /\ UNCHANGED <<pc, now, ps, readAt, ffs, anew, flag, bank, ledger, calls, bulk, adjusts, csvOut, out, fetched, account, accs, cats, firefly, failure, days, window, run, statement>>

NextMap == MapEntry \/ Refetch

SpecMap == InitMap /\ [][NextMap]_vars

\* ---------------------------------------------------------------- Spec
\* one run of the command (actionFunc)

\* the run is short: it starts at one of these times and reads one clock hour
RunTimes == {24 * 8 + 10, 24 * 12 + 10}

\* bank balances 0, 1 and 1.5
BankBalances == {0, 1000 * SubMilli, 1500 * SubMilli}

\* balances of the budgeting account before the run, in milliunits
LedgerBalances == {0, 1000, 1500}

\* balances of the Firefly account before the run: 0 and 1
FireflyBalances == {0, 1000 * SubMilli}

StatementEntries ==
  {e \in Entries : e.Description = "coffee" /\ e.Amount \in {2, 3}}

Statements == UNION {[1..n -> StatementEntries] : n \in 0..MaxEntries}

\* the --account flag
AccountName == "BCA"

\* the --firefly-url flag: not given, given
FireflyUrls == {"", "http://firefly"}

OtherAccount == [ID |-> "other", Name |-> "Cash", Balance |-> 0]

\* what GetAccounts may return when the account named AccountName holds
\* `balance`: no account, only another account, both
AccountLists(balance) ==
  {<<>>, <<OtherAccount>>,
   <<OtherAccount, [ID |-> AccountID, Name |-> AccountName, Balance |-> balance]>>}

Inflows == [ID |-> InflowsID, Name |-> "Inflows"]

Groceries == [ID |-> "groceries", Name |-> "Groceries"]

NoCategory == [ID |-> NIL, Name |-> NIL]

\* what GetCategories may return, the groups flattened in order
CategoryLists == {<<Groceries>>, <<Groceries, Inflows>>}

\* the body of a response that is not a success
ResponseBody == "response body"

\* json.Marshal(fftrx) as it appears in an error message
RequestBody == "request body"

\* how a call to the Firefly client ends: err == nil and status 200, err != nil,
\* err == nil and another status
FireflyOutcomes == {"ok", "err", "status"}

Init ==
  /\ pc = "start"
  /\ now \in RunTimes
  /\ trxs = <<>>
  /\ ps = <<>>
  /\ readAt = <<>>
  /\ ffs = <<>>
  /\ anew = 0
  /\ flag \in [delete : BOOLEAN, csvFlag : BOOLEAN, noadjust : BOOLEAN, fireflyUrl : FireflyUrls,
             days : {DefaultDays}]
  /\ bank \in BankBalances
  /\ \E b \in LedgerBalances :
       ledger = [balance |-> b, ids |-> {}, created |-> 0, duplicates |-> 0]
  /\ calls = <<>>
  /\ bulk = <<>>
  /\ adjusts = <<>>
  /\ csvOut = <<>>
  /\ out = Running
  /\ fetched = "none"
  /\ account = NoAccount
  /\ accs = <<>>
  /\ cats = <<>>
  /\ firefly = [balance |-> 0, stored |-> <<>>]
  /\ failure = <<>>
  /\ days = flag.days
  /\ window = <<>>
  /\ run = 1
  /\ statement = <<>>

\* the deferred call is left out
ReturnWithoutLogout(cs, e) ==
  /\ pc' = "done"
  /\ out' = e
  /\ calls' = calls \o cs

\* return from actionFunc after the login, cs being the calls made before:
\* the deferred bc.Logout runs
Return(cs, e) ==
  /\ pc' = "done"
  /\ out' = e
  /\ calls' = calls \o cs \o <<"Logout">>

\* return nil
Succeed(cs) ==
  /\ Return(cs, OK)
  /\ failure' = failure

\* return the error of the call made last, which ended as `outcome`
Fail(cs, outcome, e) ==
  /\ Return(cs, e)
  /\ failure' = <<cs[Len(cs)], outcome>>

\* the run goes on at `next`
Continue(cs, next) ==
  /\ pc' = next
  /\ out' = out
  /\ calls' = calls \o cs
  /\ failure' = failure

getOrDeleteConfig ==
  /\ pc = "start"
  /\ \/ /\ flag.delete
        /\ \E e \in {OK, <<"failed to delete">>} : out' = e
        /\ pc' = "done"
     \/ /\ ~flag.delete
        /\ pc' = "login"
        /\ out' = out
  /\ UNCHANGED <<now, trxs, ps, readAt, ffs, anew, flag, bank, ledger, calls, bulk, adjusts, csvOut, fetched, account, accs, cats, firefly, failure, days, window, run, statement>>

Login ==
  /\ pc = "login"
  /\ calls' = Append(calls, "Login")
  /\ \/ /\ pc' = "fetch"
        /\ out' = out
        /\ failure' = failure
     \/ /\ pc' = "done"
        /\ out' = Wrap("failed to get bca login", ApiError)
        /\ failure' = <<"Login", "err">>
  /\ UNCHANGED <<now, trxs, ps, readAt, ffs, anew, flag, bank, ledger, bulk, adjusts, csvOut, fetched, account, accs, cats, firefly, days, window, run, statement>>

\* no check of the statement's length
EmptyStatementNever(s) == FALSE

\* if len(trxs) == 0
EmptyStatement(s) == Len(s) = 0

\* fireflyUrl is not looked at
SinkWithoutFirefly(f) == IF f.csvFlag THEN "csv" ELSE "account"

\* the sink actionFunc hands the entries to
Sink(f) ==
  IF f.csvFlag THEN "csv"
  ELSE IF f.fireflyUrl # "" THEN "firefly"
  ELSE "account"

\* the upper limit alone
ClampDaysAbove(d) == IF d > MaxDays THEN MaxDays ELSE d

\* if days > 27 { days = 27 }; if days < 0 { days = 0 }
ClampDays(d) ==
  IF d > MaxDays THEN MaxDays
  ELSE IF d < 0 THEN 0
  ELSE d

\* the statements AccountStatementView may return: any in the first run, and
\* in the rerun the statement of the first run again
StatementsOf(r, last) == IF r = 1 THEN Statements ELSE {last}

getBCATransactions ==
  /\ pc = "fetch"
  /\ days' = ClampDays(days)
  /\ window' = <<AddDate(now, -ClampDays(days)), now>>
  /\ \/ /\ Fail(<<"AccountStatementView">>, "err",
                Wrap("failed to get bca transactions. try -r", ApiError))
        /\ trxs' = trxs
        /\ statement' = statement
        /\ fetched' = "failed"
     \/ \E s \in StatementsOf(run, statement) :
          /\ trxs' = s
          /\ statement' = s
          /\ fetched' = IF Len(s) = 0 THEN "empty" ELSE "entries"
          /\ IF EmptyStatement(s)
             THEN /\ Return(<<"AccountStatementView">>, <<"no bca transactions">>)
                  /\ failure' = failure
             ELSE Continue(<<"AccountStatementView">>, Sink(flag))
  /\ UNCHANGED <<now, ps, readAt, ffs, anew, flag, bank, ledger, bulk, adjusts, csvOut, account, accs, cats, firefly, run>>

\* transactionsToCsv: one turn of the loop over trxs
MapCsvRow ==
  /\ pc = "csv"
  /\ MapNext("", {0})
  /\ UNCHANGED <<pc, trxs, ffs, anew, flag, bank, ledger, calls, bulk, adjusts, csvOut, out, fetched, account, accs, cats, firefly, failure, days, window, run, statement>>

\* the rows are marshalled from trxs; the payloads mapped before are dropped
transactionsToCsv ==
  /\ pc = "csv"
  /\ Len(ps) = Len(trxs)
  /\ csvOut' = trxs
  /\ Succeed(<<>>)
  /\ UNCHANGED <<now, trxs, ps, readAt, ffs, anew, flag, bank, ledger, bulk, adjusts, fetched, account, accs, cats, firefly, days, window, run, statement>>

\* the first account is taken
FindAccountFirst(list, name) == IF list = <<>> THEN NoAccount ELSE list[1]

\* for _, acc := range accs.Accounts { if acc.Name == accountName
FindAccount(list, name) ==
  LET found == {i \in DOMAIN list : list[i].Name = name}
  IN  IF found = {} THEN NoAccount
      ELSE list[CHOOSE i \in found : \A j \in found : i <= j]

getYNABAccount ==
  /\ pc = "account"
  /\ \/ /\ Fail(<<"GetAccounts">>, "err",
                Wrap("failed to get ynab accounts. try -r", ApiError))
        /\ UNCHANGED <<account, accs>>
     \/ \E list \in AccountLists(ledger.balance) :
          /\ accs' = list
          /\ LET acc == FindAccount(list, AccountName)
             IN  IF acc = NoAccount
                 THEN /\ Return(<<"GetAccounts">>, <<"couldnt find account", AccountName>>)
                      /\ failure' = failure
                      /\ account' = account
                 ELSE /\ Continue(<<"GetAccounts">>, "create")
                      /\ account' = acc
  /\ UNCHANGED <<now, trxs, ps, readAt, ffs, anew, flag, bank, ledger, bulk, adjusts, csvOut, fetched, cats, firefly, days, window, run, statement>>

\* createYNABTransactions: one turn of the loop over trxs
MapPayload ==
  /\ pc = "create"
  /\ MapNext(account.ID, {0})
  /\ UNCHANGED <<pc, trxs, ffs, anew, flag, bank, ledger, calls, bulk, adjusts, csvOut, out, fetched, account, accs, cats, firefly, failure, days, window, run, statement>>

\* the noadjust flag is not looked at
AfterCreateAlwaysAdjust(failed, noadjust) ==
  IF failed THEN "done" ELSE "balance"

\* the error of the bulk call is dropped
AfterCreateIgnoringError(failed, noadjust) ==
  IF noadjust THEN "done" ELSE "balance"

\* where actionFunc goes after createYNABTransactions
AfterCreate(failed, noadjust) ==
  IF failed THEN "done"
  ELSE IF noadjust THEN "done"
  ELSE "balance"

\* createYNABTransactions: the bulk call after the loop, and what actionFunc
\* does with its result
CreateTransactions ==
  /\ pc = "create"
  /\ Len(ps) = Len(trxs)
  /\ bulk' = Append(bulk, ps)
  /\ \E failed \in BOOLEAN :
       LET next == AfterCreate(failed, flag.noadjust)
       IN  /\ ledger' = IF failed THEN ledger
                        ELSE Import([ledger EXCEPT !.created = 0, !.duplicates = 0], ps)
           /\ failure' = IF failed THEN <<"CreateTransactions", "err">> ELSE failure
           /\ pc' = next
           /\ calls' = calls \o <<"CreateTransactions">> \o
                       (IF next = "done" THEN <<"Logout">> ELSE <<>>)
           /\ out' = IF next # "done" THEN out
                     ELSE IF failed THEN Wrap("failed to create ynab transactions", ApiError)
                     ELSE OK
  /\ UNCHANGED <<now, trxs, ps, readAt, ffs, anew, flag, bank, adjusts, csvOut, fetched, account, accs, cats, firefly, days, window, run, statement>>

BalanceInquiry ==
  /\ pc = "balance"
  /\ \/ Continue(<<"BalanceInquiry">>, "adjust")
     \/ Fail(<<"BalanceInquiry">>, "err",
             Wrap("failed to create balance adjustment",
                  Wrap("failed to get bca balance", ApiError)))
  /\ UNCHANGED <<now, trxs, ps, readAt, ffs, anew, flag, bank, ledger, bulk, adjusts, csvOut, fetched, account, accs, cats, firefly, days, window, run, statement>>

\* the calls createYNABBalancaAdjustment makes when the run goes as `way`
AdjustmentCalls(way) ==
  IF way = "failed to get ynab account" THEN <<"GetAccount">>
  ELSE IF way = "zero" THEN <<"GetAccount">>
  ELSE IF way \in {"failed to get categories", "couldnt find to be budgeted category"}
       THEN <<"GetAccount", "GetCategories">>
  ELSE <<"GetAccount", "GetCategories", "CreateTransaction">>

\* whether the adjustment transaction is to be posted
Differs(delta) == delta # 0

\* the balance of the account as getYNABAccount found it, before the import
BalanceForDeltaStale(found, current) == found.Balance

\* anew.Balance: the balance GetAccount returns when the delta is computed
BalanceForDelta(found, current) == current

\* the first category is taken
FindCategoryFirst(list, name) == IF list = <<>> THEN NoCategory ELSE list[1]

\* for _, group := range ... for _, c := range ... if c.Name == "Inflows"
FindCategory(list, name) ==
  LET found == {i \in DOMAIN list : list[i].Name = name}
  IN  IF found = {} THEN NoCategory
      ELSE list[CHOOSE i \in found : \A j \in found : i <= j]

\* the error createYNABBalancaAdjustment returns, as actionFunc returns it
AdjustmentError(way, e) ==
  Wrap("failed to create balance adjustment", Wrap(way, e))

createYNABBalancaAdjustment ==
  /\ pc = "adjust"
  /\ \/ /\ Fail(AdjustmentCalls("failed to get ynab account"), "err",
                AdjustmentError("failed to get ynab account", ApiError))
        /\ UNCHANGED <<anew, cats, adjusts, ledger>>
     \/ LET read == BalanceForDelta(account, ledger.balance)
            delta == Delta(bank, read)
        IN  /\ anew' = read
            /\ IF ~Differs(delta)
               THEN /\ Succeed(AdjustmentCalls("zero"))
                    /\ UNCHANGED <<cats, adjusts, ledger>>
               ELSE \/ /\ Fail(AdjustmentCalls("failed to get categories"), "err",
                               AdjustmentError("failed to get categories", ApiError))
                       /\ UNCHANGED <<cats, adjusts, ledger>>
                    \/ \E cs \in CategoryLists :
                         /\ cats' = cs
                         /\ LET c == FindCategory(cs, "Inflows")
                            IN  IF c = NoCategory
                                THEN /\ Return(AdjustmentCalls("couldnt find to be budgeted category"),
                                               AdjustmentError("couldnt find to be budgeted category", <<>>))
                                     /\ failure' = failure
                                     /\ UNCHANGED <<adjusts, ledger>>
                                ELSE /\ adjusts' = Append(adjusts, AdjustmentPayload(account.ID, now, delta, c.ID))
                                     /\ \/ /\ Succeed(AdjustmentCalls("posted"))
                                           /\ ledger' = [ledger EXCEPT !.balance = @ + delta]
                                        \/ /\ Fail(AdjustmentCalls("failed to create balance adjustment transaction"), "err",
                                                   AdjustmentError("failed to create balance adjustment transaction", ApiError))
                                           /\ ledger' = ledger
  /\ UNCHANGED <<now, trxs, ps, readAt, ffs, flag, bank, bulk, csvOut, fetched, account, accs, firefly, days, window, run, statement>>

\* ---------------------------------------------------------------- Firefly

\* the reconciliation account the search returns
RecAccID == "rec"

\* the error of a Firefly account search or get that ended as `outcome`;
\* what: the message of the err != nil branch
AccountError(what, outcome, name, body) ==
  IF outcome = "err" THEN <<what, name>>
  ELSE IF outcome = "status" THEN <<"status code not OK with query", name, body>>
  ELSE <<"no accounts found with name", name>>

\* the error of storeTransaction when the call ended as `outcome`
StoreError(outcome, request, body) ==
  IF outcome = "err" THEN <<"err with request", request, body>> \o ApiError
  ELSE <<"status code not OK with request", request, body>>

\* bal.Balance.Equal(ffBalance)
Equal(d1, d2) == d1 = d2

\* the amount keeps its sign
toFireflyReconciliationTrxSigned(ffBalance, bal, accountID, recAccID, n, d) ==
  LET amount == bal - ffBalance
      to == Rounded(n)
      from == AddDate(to, -d)
  IN  [Type          |-> "reconciliation",
       Date          |-> to,
       Amount        |-> amount,
       Description   |-> <<"Reconciliation", from, to>>,
       Reconciled    |-> TRUE,
       SourceId      |-> IF amount > 0 THEN recAccID ELSE accountID,
       DestinationId |-> IF amount > 0 THEN accountID ELSE recAccID]

\* n: the reading of time.Now(), d: the value of days
toFireflyReconciliationTrx(ffBalance, bal, accountID, recAccID, n, d) ==
  LET amount == bal - ffBalance
      to == Rounded(n)
      from == AddDate(to, -d)
  IN  [Type          |-> "reconciliation",
       Date          |-> to,
       Amount        |-> Abs(amount),
       Description   |-> <<"Reconciliation", from, to>>,
       Reconciled    |-> TRUE,
       SourceId      |-> IF amount > 0 THEN recAccID ELSE accountID,
       DestinationId |-> IF amount > 0 THEN accountID ELSE recAccID]

\* the Firefly service: a stored transaction moves its amount into the
\* destination account or out of the source account
Store(f, fftrx, accountID) ==
  [f EXCEPT !.stored = Append(@, fftrx),
            !.balance = IF fftrx.DestinationId = accountID
                        THEN @ + fftrx.Amount
                        ELSE @ - fftrx.Amount]

\* the error createFireflyTransactions returns, as actionFunc returns it
FireflyError(e) == Wrap("failed to create firefly transactions", e)

getFireflyAccount ==
  /\ pc = "firefly"
  /\ \/ \E o \in {"err", "status", "empty"} :
          /\ Fail(<<"SearchAccounts">>, o,
                  FireflyError(Wrap("failed to get account",
                      AccountError("failed to search account", o, AccountName, ResponseBody))))
          /\ UNCHANGED <<account, firefly>>
     \/ \E b \in FireflyBalances :
          /\ account' = [ID |-> AccountID, Name |-> AccountName, Balance |-> b]
          /\ firefly' = [firefly EXCEPT !.balance = b]
          /\ Continue(<<"SearchAccounts">>, "store")
  /\ UNCHANGED <<now, trxs, ps, readAt, ffs, anew, flag, bank, ledger, bulk, adjusts, csvOut, fetched, accs, cats, days, window, run, statement>>

\* createFireflyTransactions: one turn of the loop over trxs
createFireflyTransaction ==
  /\ pc = "store"
  /\ Len(ffs) < Len(trxs)
  /\ LET fftrx == toFireflyTrx(trxs[Len(ffs) + 1], account.ID, now)
     IN  /\ ffs' = Append(ffs, fftrx)
         /\ \E o \in FireflyOutcomes :
              IF o = "ok"
              THEN /\ firefly' = Store(firefly, fftrx, account.ID)
                   /\ Continue(<<"StoreTransaction">>, "store")
              ELSE /\ firefly' = firefly
                   /\ Fail(<<"StoreTransaction">>, o,
                           FireflyError(Wrap("failed to create firefly transaction",
                               StoreError(o, RequestBody, ResponseBody))))
  /\ UNCHANGED <<now, trxs, ps, readAt, anew, flag, bank, ledger, bulk, adjusts, csvOut, fetched, account, accs, cats, days, window, run, statement>>

\* createFireflyTransactions after the loop: the account is read again, and
\* its balance, in the bank's unit, is compared with the bank's
getFireflyAccountByID ==
  /\ pc = "store"
  /\ Len(ffs) = Len(trxs)
  /\ \/ \E o \in {"err", "status"} :
          /\ Fail(<<"AccountsApi.GetAccount">>, o,
                  FireflyError(Wrap("failed to get account",
                      AccountError("failed to search account", o, AccountName, ResponseBody))))
          /\ anew' = anew
     \/ /\ anew' = firefly.balance
        /\ IF flag.noadjust \/ Equal(bank, firefly.balance)
           THEN Succeed(<<"AccountsApi.GetAccount">>)
           ELSE Continue(<<"AccountsApi.GetAccount">>, "reconcile")
  /\ UNCHANGED <<now, trxs, ps, readAt, ffs, flag, bank, ledger, bulk, adjusts, csvOut, fetched, account, accs, cats, firefly, days, window, run, statement>>

createFireflyReconciliation ==
  /\ pc = "reconcile"
  /\ \/ \E o \in {"err", "status", "empty"} :
          /\ Fail(<<"SearchAccounts">>, o,
                  FireflyError(Wrap("failed to create firefly reconciliation",
                      Wrap("failed to get reconciliation account",
                          AccountError("failed to search reconciliation account", o,
                                       AccountName, ResponseBody)))))
          /\ firefly' = firefly
     \/ LET fftrx == toFireflyReconciliationTrx(anew, bank, account.ID, RecAccID, now, days)
        IN  \E o \in FireflyOutcomes :
              IF o = "ok"
              THEN /\ firefly' = Store(firefly, fftrx, account.ID)
                   /\ Succeed(<<"SearchAccounts", "StoreTransaction">>)
              ELSE /\ firefly' = firefly
                   /\ Fail(<<"SearchAccounts", "StoreTransaction">>, o,
                           FireflyError(Wrap("failed to create firefly reconciliation",
                               StoreError(o, RequestBody, ResponseBody))))
  /\ UNCHANGED <<now, trxs, ps, readAt, ffs, anew, flag, bank, ledger, bulk, adjusts, csvOut, fetched, account, accs, cats, days, window, run, statement>>

Next ==
  \/ getOrDeleteConfig
  \/ Login
  \/ getBCATransactions
  \/ MapCsvRow
  \/ transactionsToCsv
  \/ getYNABAccount
  \/ MapPayload
  \/ CreateTransactions
  \/ BalanceInquiry
  \/ createYNABBalancaAdjustment
  \/ getFireflyAccount
  \/ createFireflyTransaction
  \/ getFireflyAccountByID
  \/ createFireflyReconciliation

Spec == Init /\ [][Next]_vars

\* ---------------------------------------------------------------- SpecDays
\* the statement fetch of a run, for every value of the --days flag

\* how far beyond 0 and MaxDays the values of the flag go
MaxDayExcess == 3

DaysFlags == (0 - MaxDayExcess)..(MaxDays + MaxDayExcess)

\* the state of a run after the login
InitDays ==
  /\ pc = "fetch"
  /\ now \in RunTimes
  /\ trxs = <<>>
  /\ ps = <<>>
  /\ readAt = <<>>
  /\ ffs = <<>>
  /\ anew = 0
  /\ flag \in [delete : {FALSE}, csvFlag : {FALSE}, noadjust : {FALSE}, fireflyUrl : {""},
               days : DaysFlags]
  /\ bank = 0
  /\ ledger = [balance |-> 0, ids |-> {}, created |-> 0, duplicates |-> 0]
  /\ calls = <<"Login">>
  /\ bulk = <<>>
  /\ adjusts = <<>>
  /\ csvOut = <<>>
  /\ out = Running
  /\ fetched = "none"
  /\ account = NoAccount
  /\ accs = <<>>
  /\ cats = <<>>
  /\ firefly = [balance |-> 0, stored |-> <<>>]
  /\ failure = <<>>
  /\ days = flag.days
  /\ window = <<>>
  /\ run = 1
  /\ statement = <<>>

NextDays == getBCATransactions

SpecDays == InitDays /\ [][NextDays]_vars

\* ---------------------------------------------------------------- SpecRerun
\* the command run for the budgeting ledger, and run again after it has
\* ended without an error

\* how much later the second run starts, in hours
RerunDelays == {0, 24}

InitRerun ==
  /\ Init
  /\ ~flag.delete
  /\ ~flag.csvFlag
  /\ flag.fireflyUrl = ""

\* the command is started again with the same flags: the bank, its statement
\* and the budgeting account are as the first run left them
Rerun ==
  /\ pc = "done"
  /\ out = OK
  /\ run = 1
  /\ run' = 2
  /\ \E later \in RerunDelays : now' = now + later
  /\ pc' = "start"
  /\ trxs' = <<>>
  /\ ps' = <<>>
  /\ readAt' = <<>>
  /\ ffs' = <<>>
  /\ anew' = 0
  /\ calls' = <<>>
  /\ bulk' = <<>>
  /\ adjusts' = <<>>
  /\ csvOut' = <<>>
  /\ out' = Running
  /\ fetched' = "none"
  /\ account' = NoAccount
  /\ accs' = <<>>
  /\ cats' = <<>>
  /\ failure' = <<>>
  /\ days' = flag.days
  /\ window' = <<>>
  /\ UNCHANGED <<flag, bank, ledger, firefly, statement>>

NextRerun ==
  \/ getOrDeleteConfig
  \/ Login
  \/ getBCATransactions
  \/ getYNABAccount
  \/ MapPayload
  \/ CreateTransactions
  \/ BalanceInquiry
  \/ createYNABBalancaAdjustment
  \/ Rerun

SpecRerun == InitRerun /\ [][NextRerun]_vars

\* ---------------------------------------------------------------- claims

\* C1: sign law of the mapper: an entry with a non-negative amount maps to an
\* amount >= 0 when its type is credit and to an amount <= 0 when it is debit.
C1_SignLaw ==
  \A i \in 1..Len(ps) :
    trxs[i].Amount >= 0 =>
      /\ trxs[i].Type = "CR" => ps[i].Amount >= 0
      /\ trxs[i].Type = "DB" => ps[i].Amount <= 0

\* a debit of a positive amount was mapped to a negative amount
C1_Witness ==
  \E i \in 1..Len(ps) :
    trxs[i].Type = "DB" /\ trxs[i].Amount > 0 /\ ps[i].Amount < 0

\* C2 as stated: two raw entries that agree on date, amount, type and payee
\* get the same import_id, and so does one entry mapped twice.
C2_KeyOfRawFields ==
  \A i \in 1..Len(ps), j \in 1..Len(ps) :
    ( /\ trxs[i].Date = trxs[j].Date
      /\ trxs[i].Amount = trxs[j].Amount
      /\ trxs[i].Type = trxs[j].Type
      /\ trxs[i].Payee = trxs[j].Payee ) => ps[i].ImportID = ps[j].ImportID

\* C2 as amended: the import_id is a function of the resolved date (the
\* entry's date, or the clearance date of the time of mapping for a pending
\* entry), amount, type and payee, whatever the description is: entries that
\* agree on the four fields get the same import_id exactly when they are
\* settled or were mapped at times with the same clearance date.
C2_KeyOfResolvedFields ==
  \A i \in 1..Len(ps), j \in 1..Len(ps) :
    ( /\ trxs[i].Date = trxs[j].Date
      /\ trxs[i].Amount = trxs[j].Amount
      /\ trxs[i].Type = trxs[j].Type
      /\ trxs[i].Payee = trxs[j].Payee ) =>
        ( ps[i].ImportID = ps[j].ImportID
          <=> ( \/ trxs[i].Date # 0
                \/ clearDate(readAt[i][1]) = clearDate(readAt[j][1]) ) )

\* one entry was mapped under two descriptions and got one import_id
C2_Witness ==
  /\ Len(ps) = 2
  /\ trxs[1].Description # trxs[2].Description
  /\ ps[1].ImportID = ps[2].ImportID

\* C3: clearDate(now) is midnight of now's day plus 0 days on Friday before
\* 22:00, 3 days on Friday from 22:00, 2 days on Saturday, 1 day on Sunday,
\* and on Monday to Thursday 0 days before 22:00 and 1 day from 22:00.  The
\* result is read off the date a pending entry is hashed with.
C3_ClearDateOffsets ==
  \A i \in 1..Len(ps) :
    trxs[i].Date = 0 =>
      LET n == readAt[i][1]
          day == n \div 24
          hour == n - 24 * day
          weekday == (day + 1) % 7
          offset == IF weekday = 5 THEN (IF hour < 22 THEN 0 ELSE 3)
                    ELSE IF weekday = 6 THEN 2
                    ELSE IF weekday = 0 THEN 1
                    ELSE IF hour < 22 THEN 0 ELSE 1
      IN  ps[i].ImportID[1] = 24 * (day + offset)

\* a pending entry was mapped on a Friday from 22:00 and resolved 3 days on
C3_Witness ==
  \E i \in 1..Len(ps) :
    /\ trxs[i].Date = 0
    /\ Weekday(readAt[i][1]) = 5
    /\ Hour(readAt[i][1]) >= 22
    /\ ps[i].ImportID[1] = Rounded(readAt[i][1]) + 72

\* C4: the date of a mapped transaction is never zero and never later than
\* now; a resolved date later than now is replaced by now.
C4_DateNotInFuture ==
  \A i \in 1..Len(ps) :
    /\ ps[i].Date # 0
    /\ ps[i].Date <= readAt[i][3]
    /\ ps[i].Date <= now
    /\ ps[i].ImportID[1] > readAt[i][2] => ps[i].Date = readAt[i][3]

\* a pending entry resolved to a later day was given the time of the run
C4_Witness ==
  \E i \in 1..Len(ps) :
    /\ trxs[i].Date = 0
    /\ ps[i].ImportID[1] > readAt[i][2]
    /\ ps[i].Date = readAt[i][3]

C6_Reconciler ==
  /\ Len(adjusts) <= 1
  /\ (pc = "done" /\ out = OK /\ "GetAccount" \in Range(calls)) =>
       LET scaled == (bank * 1000) \div DecDen
       IN  IF scaled = anew THEN adjusts = <<>>
           ELSE Len(adjusts) = 1 /\ adjusts[1].Amount = scaled - anew

\* C7 as stated: the date of the transaction mapped from a pending entry is
\* the date its import_id is derived from.
C7_DateIsHashedDate ==
  \A i \in 1..Len(ps) :
    trxs[i].Date = 0 => ps[i].Date = ps[i].ImportID[1]

\* C7 as amended: the import_id of a pending entry is derived from
\* clearDate(now); the date of the transaction is that date only when it is
\* not later than the time of the run (always so from Monday to Friday before
\* 22:00), and else it is the time of the run while the import_id keeps the
\* later clearance date.
C7_HashedDateIsClearDate ==
  \A i \in 1..Len(ps) :
    trxs[i].Date = 0 =>
      LET n == readAt[i][1]
          hashed == ps[i].ImportID[1]
      IN  /\ hashed # 0
          /\ hashed >= Rounded(n)
          /\ (Weekday(n) \in 1..5 /\ Hour(n) < 22) =>
               hashed = Rounded(n) /\ ps[i].Date = hashed
          /\ (Weekday(n) \in {0, 6} \/ Hour(n) >= 22) => hashed > n
          /\ hashed <= readAt[i][2] => ps[i].Date = hashed
          /\ hashed > readAt[i][2] => ps[i].Date = readAt[i][3]

\* a pending entry mapped on a Saturday: dated now, hashed with the Monday
C7_Witness ==
  \E i \in 1..Len(ps) :
    /\ trxs[i].Date = 0
    /\ Weekday(readAt[i][1]) = 6
    /\ ps[i].Date = readAt[i][3]
    /\ ps[i].Date < ps[i].ImportID[1]
    /\ ps[i].ImportID[1] = Rounded(readAt[i][1]) + 48

\* C8: the magnitude of the mapped amount is the entry amount times 1000,
\* truncated toward zero: m <= |amount| x 1000 < m + 1.
C8_Truncated ==
  \A i \in 1..Len(ps) :
    LET m == Abs(ps[i].Amount)
        a == Abs(trxs[i].Amount)
    IN  m * DecDen <= a * 1000 /\ a * 1000 < (m + 1) * DecDen

\* an amount with a part below one milliunit was mapped to a non-zero amount
C8_Witness ==
  \E i \in 1..Len(ps) :
    /\ (trxs[i].Amount * 1000) % DecDen # 0
    /\ trxs[i].Amount > 0
    /\ ps[i].Amount # 0

\* C9: every transaction sent to the budgeting ledger is approved and is
\* either a regular import (cleared, with an import_id, no category, no
\* flag) or the balance adjustment (reconciled, the fixed payee, a category,
\* no import_id).
C9_SentShapes ==
  /\ \A k \in 1..Len(bulk) : \A i \in 1..Len(bulk[k]) :
       LET p == bulk[k][i]
       IN  /\ p.Approved
           /\ p.Cleared = "cleared"
           /\ p.ImportID # NoImportID
           /\ p.CategoryID = NIL
           /\ p.FlagColor = NIL
  /\ \A k \in 1..Len(adjusts) :
       LET p == adjusts[k]
       IN  /\ p.Approved
           /\ p.Cleared = "reconciled"
           /\ p.PayeeName = "Automated Balance Adjustment"
           /\ p.CategoryID # NIL
           /\ p.FlagColor = NIL
           /\ p.ImportID = NoImportID

\* a run has sent imports and an adjustment
C9_Witness ==
  /\ Len(bulk) = 1
  /\ Len(bulk[1]) >= 1
  /\ Len(adjusts) = 1

\* C10: a run that reaches the budgeting-ledger sink makes exactly one
\* bulk-create call, whose payload holds one transaction per raw entry, the
\* i-th mapped from the i-th entry.
C10_OneBulkCall ==
  /\ Len(bulk) <= 1
  /\ (pc \in {"balance", "adjust"} \/ "CreateTransactions" \in Range(calls)) => Len(bulk) = 1
  /\ Len(bulk) = 1 =>
       /\ Len(trxs) >= 1
       /\ Len(bulk[1]) = Len(trxs)
       /\ \A i \in 1..Len(trxs) :
            bulk[1][i] = toPayloadTransaction(trxs[i], AccountID,
                                              readAt[i][1], readAt[i][2], readAt[i][3])

\* two different entries were submitted in one call
C10_Witness ==
  /\ Len(bulk) = 1
  /\ Len(bulk[1]) = 2
  /\ trxs[1] # trxs[2]
  /\ pc = "done"
  /\ out = OK

\* C11: a run whose statement fetch returns zero entries ends there: it looks
\* up no account, submits no batch, reads no balance and posts no adjustment,
\* and no sink receives anything.
C11_EmptyFetchEndsRun ==
  fetched = "empty" =>
    /\ pc = "done"
    /\ calls = <<"Login", "AccountStatementView", "Logout">>
    /\ ps = <<>>
    /\ bulk = <<>>
    /\ adjusts = <<>>
    /\ csvOut = <<>>
    /\ ffs = <<>>

\* a run for the budgeting ledger with reconciliation fetched an empty
\* statement and has ended
C11_Witness ==
  /\ fetched = "empty"
  /\ pc = "done"
  /\ ~flag.csvFlag
  /\ flag.fireflyUrl = ""
  /\ ~flag.noadjust

\* C12 as stated: a run whose statement fetch returns zero entries reports
\* that and ends with a result that is not an error.
C12_EmptyFetchIsNoError ==
  (fetched = "empty" /\ pc = "done") => out = OK

\* C13: when the bulk-create call fails the run ends with that error: the
\* call is made once and not again, and no balance is read and no adjustment
\* is posted after it.
C13_CreateErrorEndsRun ==
  failure = <<"CreateTransactions", "err">> =>
    /\ pc = "done"
    /\ out = <<"failed to create ynab transactions", "api error">>
    /\ Len(bulk) = 1
    /\ calls = <<"Login", "AccountStatementView", "GetAccounts", "CreateTransactions", "Logout">>
    /\ adjusts = <<>>
    /\ ledger.ids = {}

\* the bulk call of a run that was to reconcile has failed
C13_Witness ==
  /\ failure = <<"CreateTransactions", "err">>
  /\ ~flag.noadjust
  /\ Len(bulk) = 1
  /\ Len(bulk[1]) = 2

\* C14: when the balances differ and the budget has no category named
\* "Inflows", the reconciliation ends with an error and posts no adjustment;
\* the transactions imported before stay in the account.
C14_NoInflowsNoAdjustment ==
  (cats # <<>> /\ \A i \in DOMAIN cats : cats[i].Name # "Inflows") =>
    /\ pc = "done"
    /\ out = <<"failed to create balance adjustment", "couldnt find to be budgeted category">>
    /\ adjusts = <<>>
    /\ "CreateTransaction" \notin Range(calls)
    /\ Delta(bank, anew) # 0
    /\ Len(bulk) = 1
    /\ ledger.ids = {bulk[1][i].ImportID : i \in DOMAIN bulk[1]}
    /\ ledger.created + ledger.duplicates = Len(bulk[1])
    /\ ledger.balance = anew

\* the categories were read, none is "Inflows", and entries were imported
C14_Witness ==
  /\ cats = <<Groceries>>
  /\ pc = "done"
  /\ ledger.created >= 1

\* C15: when no account of the budget has the configured name, the lookup
\* fails with an error whose message contains that name, and the run ends
\* there: nothing is mapped, submitted or adjusted.
C15_UnknownAccountAborts ==
  ( /\ "GetAccounts" \in Range(calls)
    /\ failure # <<"GetAccounts", "err">>
    /\ \A i \in DOMAIN accs : accs[i].Name # AccountName ) =>
    /\ pc = "done"
    /\ out[1] = "couldnt find account"
    /\ AccountName \in Range(out)
    /\ calls = <<"Login", "AccountStatementView", "GetAccounts", "Logout">>
    /\ ps = <<>>
    /\ bulk = <<>>
    /\ adjusts = <<>>

\* the budget has an account, but none with the configured name
C15_Witness ==
  /\ pc = "done"
  /\ Len(accs) = 1
  /\ accs[1].Name # AccountName
  /\ out = <<"couldnt find account", AccountName>>

\* C16 as stated: no run ends in a partial-success state: when a run has
\* ended, the target ledger holds a transaction for every entry of the batch
\* or for none.
C16_AllOrNothing ==
  pc = "done" =>
    /\ Len(firefly.stored) = 0 \/ Len(firefly.stored) >= Len(trxs)
    /\ ledger.created + ledger.duplicates \in {0, Len(trxs)}

\* C17: the three sinks are mutually exclusive: at most one of the flat
\* file, the Firefly ledger and the budgeting ledger receives the entries of
\* a run; with csv set no ledger is called, and with a firefly URL the
\* budgeting ledger is not called.
C17_OneSink ==
  LET FireflyCalls == {"SearchAccounts", "StoreTransaction", "AccountsApi.GetAccount"}
      YNABCalls == {"GetAccounts", "CreateTransactions", "GetAccount", "GetCategories", "CreateTransaction"}
      toCsv == csvOut # <<>>
      toFirefly == Range(calls) \cap FireflyCalls # {}
      toYNAB == Range(calls) \cap YNABCalls # {}
  IN  /\ ~(toCsv /\ toFirefly)
      /\ ~(toCsv /\ toYNAB)
      /\ ~(toFirefly /\ toYNAB)
      /\ flag.csvFlag => ~toFirefly /\ ~toYNAB
      /\ flag.fireflyUrl # "" => ~toYNAB
      /\ toCsv => flag.csvFlag
      /\ toFirefly => flag.fireflyUrl # ""

\* runs with every combination of the two flags have ended with success
C17_Witness ==
  /\ pc = "done"
  /\ out = OK
  /\ flag.fireflyUrl # ""
  /\ ~flag.csvFlag
  /\ Len(firefly.stored) >= 2

\* C18 as stated: the rows of the CSV output are the transactions mapped
\* from the entries, with an empty account id, and not the raw entries.
C18_CsvOfMapped ==
  flag.csvFlag /\ pc = "done" /\ fetched = "entries" =>
    /\ Len(csvOut) = Len(trxs)
    /\ \A i \in 1..Len(csvOut) :
         csvOut[i] = toPayloadTransaction(trxs[i], "", readAt[i][1], readAt[i][2], readAt[i][3])

\* C19 as stated: a call to the Firefly ledger that ends with a transport
\* error or with a status that is not OK ends the run with an error; the
\* message tells the two apart, and in both cases it carries the body of the
\* response.
C19_FireflyErrorsCarryBody ==
  ( /\ failure # <<>>
    /\ failure[1] \in {"SearchAccounts", "StoreTransaction", "AccountsApi.GetAccount"}
    /\ failure[2] \in {"err", "status"} ) =>
    /\ pc = "done"
    /\ out # OK
    /\ out[1] = "failed to create firefly transactions"
    /\ (failure[2] = "status") <=>
         (Range(out) \cap {"status code not OK with query", "status code not OK with request"} # {})
    /\ ResponseBody \in Range(out)

\* the position of a call in the order of a run; inReconciliation: the call
\* is made after the Firefly account was read again
Rank(call, inReconciliation) ==
  CASE call = "Login" -> 1
    [] call = "AccountStatementView" -> 2
    [] call = "GetAccounts" -> 3
    [] call = "CreateTransactions" -> 4
    [] call = "BalanceInquiry" -> 5
    [] call = "GetAccount" -> 6
    [] call = "GetCategories" -> 7
    [] call = "CreateTransaction" -> 8
    [] call = "SearchAccounts" -> IF inReconciliation THEN 6 ELSE 3
    [] call = "StoreTransaction" -> IF inReconciliation THEN 7 ELSE 4
    [] call = "AccountsApi.GetAccount" -> 5
    [] call = "Logout" -> 9

\* C20: the steps of a run happen in one order, each after the one before
\* has succeeded: login, statement fetch, mapping and submission of the
\* batch, reconciliation; the balance of the target account that the delta
\* is computed from is read after the batch was submitted and is the
\* balance the import left.
C20_StrictOrder ==
  LET reread(i) == \E k \in 1..(i - 1) : calls[k] = "AccountsApi.GetAccount"
      rank(i) == Rank(calls[i], reread(i))
      repeated(i) == calls[i] = "StoreTransaction" /\ ~reread(i)
      posted == /\ "CreateTransaction" \in Range(calls)
                /\ failure # <<"CreateTransaction", "err">>
  IN  /\ \A i \in 1..Len(calls), j \in 1..Len(calls) :
           i < j => \/ rank(i) < rank(j)
                    \/ rank(i) = rank(j) /\ repeated(i) /\ repeated(j)
      /\ (failure # <<>> /\ failure[1] # "Login") =>
           /\ pc = "done"
           /\ calls[Len(calls)] = "Logout"
           /\ calls[Len(calls) - 1] = failure[1]
      /\ ("GetAccount" \in Range(calls) /\ failure # <<"GetAccount", "err">>) =>
           /\ Len(bulk) = 1
           /\ ledger.created + ledger.duplicates = Len(trxs)
           /\ anew = ledger.balance - (IF posted THEN adjusts[1].Amount ELSE 0)
      /\ ("AccountsApi.GetAccount" \in Range(calls)
            /\ failure \notin {<<"AccountsApi.GetAccount", "err">>, <<"AccountsApi.GetAccount", "status">>}) =>
           /\ Len(firefly.stored) >= Len(trxs)
           /\ \A i \in 1..Len(trxs) : firefly.stored[i] = ffs[i]
           /\ IF Len(firefly.stored) > Len(trxs) THEN firefly.balance = bank
              ELSE firefly.balance = anew

\* a run for the budgeting ledger has imported entries, read a balance that
\* the import had changed, and posted the adjustment
C20_Witness ==
  /\ pc = "done"
  /\ out = OK
  /\ calls = <<"Login", "AccountStatementView", "GetAccounts", "CreateTransactions",
               "BalanceInquiry", "GetAccount", "GetCategories", "CreateTransaction", "Logout">>
  /\ ledger.created >= 1
  /\ anew # account.Balance

\* C21: for every value of the days flag the statement asked of the bank
\* runs from now - d days to now, with d = min(max(days, 0), 27), so d is
\* between 0 and 27.
C21_WindowClamped ==
  window # <<>> =>
    LET atLeast0 == IF flag.days < 0 THEN 0 ELSE flag.days
        d == IF atLeast0 > 27 THEN 27 ELSE atLeast0
    IN  /\ d \in 0..27
        /\ days = d
        /\ window = <<now - 24 * d, now>>

\* the flag was above 27 and the statement of 27 days was asked for
C21_Witness ==
  /\ flag.days > 27
  /\ window = <<now - 24 * 27, now>>
  /\ fetched = "entries"

\* C22: with the no-adjust flag no balance adjustment and no reconciliation
\* transaction is posted, in the budgeting-ledger sink and in the Firefly
\* sink alike, whatever the balances are; the entries are still imported.
C22_NoAdjustPostsNothing ==
  flag.noadjust =>
    /\ adjusts = <<>>
    /\ Range(calls) \cap {"BalanceInquiry", "GetAccount", "GetCategories", "CreateTransaction"} = {}
    /\ \A i \in 1..Len(calls) :
         calls[i] = "AccountsApi.GetAccount" => \A j \in (i + 1)..Len(calls) : calls[j] = "Logout"
    /\ \A i \in DOMAIN firefly.stored : firefly.stored[i].Type # "reconciliation"
    /\ (pc = "done" /\ out = OK /\ ~flag.delete /\ ~flag.csvFlag) =>
         IF flag.fireflyUrl = ""
         THEN /\ Len(bulk) = 1
              /\ Len(bulk[1]) = Len(trxs)
              /\ ledger.created + ledger.duplicates = Len(trxs)
              /\ ledger.ids = {bulk[1][i].ImportID : i \in DOMAIN bulk[1]}
         ELSE /\ Len(ffs) = Len(trxs)
              /\ firefly.stored = ffs

\* a run for the Firefly sink with the flag has stored its two entries and
\* ended with a balance that differs from the bank's
C22_Witness ==
  /\ flag.noadjust
  /\ pc = "done"
  /\ out = OK
  /\ flag.fireflyUrl # ""
  /\ ~flag.csvFlag
  /\ Len(firefly.stored) = 2
  /\ firefly.balance # bank

\* C23: the transaction the Firefly mapper makes of an entry has a date that
\* is never absent and never later than the time of the mapping, also for a
\* pending entry and at a weekend or after 22:00.
C23_FireflyDateResolved ==
  \A i \in 1..Len(ffs) :
    /\ ~IsZero(ffs[i].Date)
    /\ ffs[i].Date <= readAt[i][1]
    /\ ffs[i].Date <= now
    /\ trxs[i].Date = 0 => ffs[i].Date = readAt[i][1]
    /\ trxs[i].Date # 0 => ffs[i].Date = trxs[i].Date

\* a pending entry was mapped on a Saturday and got the time of its mapping
C23_Witness ==
  /\ Len(ffs) >= 1
  /\ trxs[1].Date = 0
  /\ Weekday(readAt[1][1]) = Saturday
  /\ ffs[1].Date = readAt[1][1]

\* C24 as stated: after a run whose import and reconciliation both succeed,
\* the balance of the account is the bank balance in milliunits (balance x
\* 1000, scaled as the mapper scales amounts), also for a bank balance with a
\* fractional part, so that a reconciliation right after finds delta = 0.
C24_BalanceIsBankBalance ==
  (pc = "done" /\ out = OK /\ "GetAccount" \in Range(calls)) =>
    /\ ledger.balance = (bank * 1000) \div DecDen
    /\ Delta(bank, ledger.balance) = 0

\* C25: a second run over the same statement, all of whose entries have a
\* date, with an unchanged bank balance creates no transaction, has every
\* entry reported as a duplicate and posts no balance adjustment.
C25_RerunIdempotent ==
  ( /\ run = 2
    /\ "CreateTransactions" \in Range(calls)
    /\ failure # <<"CreateTransactions", "err">>
    /\ \A i \in DOMAIN trxs : trxs[i].Date # 0 ) =>
    /\ trxs = statement
    /\ ledger.created = 0
    /\ ledger.duplicates = Len(trxs)
    /\ adjusts = <<>>
    /\ "CreateTransaction" \notin Range(calls)
    /\ ("GetAccount" \in Range(calls) /\ failure # <<"GetAccount", "err">>) => Delta(bank, anew) = 0

\* the second run over two settled entries has ended after the
\* reconciliation, a day after the first
C25_Witness ==
  /\ run = 2
  /\ pc = "done"
  /\ out = OK
  /\ Len(trxs) = 2
  /\ \A i \in DOMAIN trxs : trxs[i].Date # 0
  /\ ledger.duplicates = 2
  /\ "GetAccount" \in Range(calls)
  /\ Weekday(now) \in {Sunday, 3}

\* C26: on every path of a run after a successful login, logout is called
\* exactly once, as the last call before the run returns; when the login
\* fails or the delete flag ends the run, logout is never called.
C26_LogoutOnce ==
  LET logouts == {i \in DOMAIN calls : calls[i] = "Logout"}
      loggedIn == "Login" \in Range(calls) /\ failure # <<"Login", "err">>
  IN  /\ pc # "done" => logouts = {}
      /\ pc = "done" => IF loggedIn THEN logouts = {Len(calls)} ELSE logouts = {}

\* a run has ended with the error of the adjustment's CreateTransaction and
\* has logged out once
C26_Witness ==
  /\ pc = "done"
  /\ failure = <<"CreateTransaction", "err">>
  /\ calls[Len(calls)] = "Logout"
  /\ Cardinality({i \in DOMAIN calls : calls[i] = "Logout"}) = 1

\* C27 as stated: every statement line of a batch results in its own
\* transaction in the account: when the bulk call of a run into an account
\* without imports has succeeded, as many transactions were created as the
\* batch has lines, also when two lines agree on date, amount, type and payee.
C27_EveryLineCreated ==
  ( /\ run = 1
    /\ "CreateTransactions" \in Range(calls)
    /\ failure # <<"CreateTransactions", "err">> ) =>
    /\ ledger.created = Len(trxs)
    /\ ledger.duplicates = 0

\* C28: the Firefly reconciliation posts nothing when the bank balance
\* equals the balance of the Firefly account after the import; otherwise it
\* posts one reconciliation transaction, whose amount is the absolute value
\* of bank balance - Firefly balance, from the reconciliation account to the
\* target account when the bank balance is higher and the other way round
\* when it is lower.
C28_FireflyReconciliation ==
  LET read == /\ "AccountsApi.GetAccount" \in Range(calls)
              /\ failure \notin {<<"AccountsApi.GetAccount", "err">>,
                                 <<"AccountsApi.GetAccount", "status">>}
      recs == {i \in DOMAIN firefly.stored : firefly.stored[i].Type = "reconciliation"}
  IN  /\ Cardinality(recs) <= 1
      /\ (read /\ bank = anew) =>
           /\ recs = {}
           /\ pc = "done"
           /\ out = OK
           /\ calls[Len(calls) - 1] = "AccountsApi.GetAccount"
      /\ \A i \in recs :
           LET t == firefly.stored[i]
           IN  /\ bank # anew
               /\ t.Amount = Abs(bank - anew)
               /\ t.Amount > 0
               /\ bank > anew => t.SourceId = RecAccID /\ t.DestinationId = account.ID
               /\ bank < anew => t.SourceId = account.ID /\ t.DestinationId = RecAccID
               /\ firefly.balance = bank
      /\ (pc = "done" /\ out = OK /\ read /\ ~flag.noadjust /\ bank # anew) =>
           Cardinality(recs) = 1

\* a reconciliation that takes money out of the target account was posted
C28_Witness ==
  /\ pc = "done"
  /\ out = OK
  /\ bank < anew
  /\ Len(firefly.stored) = Len(trxs) + 1
  /\ firefly.stored[Len(firefly.stored)].Type = "reconciliation"
  /\ firefly.stored[Len(firefly.stored)].SourceId = AccountID

\* C29: clearDate(now) is the midnight of a Monday-to-Friday date that is no
\* earlier than the day of now and at most 3 days after it, and
\* clearDate(clearDate(now)) = clearDate(now).
C29_ClearDateWorkingDay ==
  /\ LET c == clearDate(now)
     IN  /\ Hour(c) = 0
         /\ Weekday(c) \in 1..5
         /\ c >= Rounded(now)
         /\ c <= AddDate(Rounded(now), 3)
         /\ clearDate(c) = c
  /\ \A i \in 1..Len(ps) :
       trxs[i].Date = 0 =>
         LET c == ps[i].ImportID[1]
         IN  /\ c = clearDate(readAt[i][1])
             /\ Weekday(c) \in 1..5
             /\ clearDate(c) = c

\* a pending entry was mapped on a Sunday and its key holds the Monday
C29_Witness ==
  /\ Len(ps) >= 1
  /\ trxs[1].Date = 0
  /\ Weekday(readAt[1][1]) = Sunday
  /\ ps[1].ImportID[1] = AddDate(Rounded(readAt[1][1]), 1)
  /\ Weekday(ps[1].ImportID[1]) = 1

\* C30: the Firefly mapper keeps the direction of the money: a debit entry
\* becomes a withdrawal from the target account to the payee, every other
\* entry a deposit from the payee to the target account, and the amount sent
\* is the entry's amount, without a sign for the direction.
C30_FireflyDirection ==
  \A i \in 1..Len(ffs) :
    LET e == trxs[i]
        t == ffs[i]
    IN  /\ IF e.Type = "DB"
           THEN /\ t.Type = "withdrawal"
                /\ t.SourceId = AccountID
                /\ t.SourceName = NIL
                /\ t.DestinationId = NIL
                /\ t.DestinationName = e.Payee
           ELSE /\ t.Type = "deposit"
                /\ t.SourceId = NIL
                /\ t.SourceName = e.Payee
                /\ t.DestinationId = AccountID
                /\ t.DestinationName = NIL
        /\ t.Amount = e.Amount
        /\ e.Amount >= 0 => t.Amount = Abs(e.Amount)

\* a debit of a positive amount was mapped to a withdrawal of that amount
\* from the target account
C30_Witness ==
  /\ Len(ffs) >= 1
  /\ trxs[1].Type = "DB"
  /\ trxs[1].Amount > 0
  /\ ffs[1].Type = "withdrawal"
  /\ ffs[1].Amount = trxs[1].Amount
  /\ ffs[1].SourceId = AccountID

====
